---- MODULE Spec2Model ----
(***************************************************************************)
(* Model of pkg/api/userconfig/validators.go: the value-type validator,    *)
(* the value caster, the runtime-type matcher and the column-type matcher. *)
(*                                                                         *)
(* Every function of the file is pure.  A Go map is iterated in an         *)
(* unspecified order, so a function that returns from inside a `range`     *)
(* over a map is modelled by the SET of results it can return, one for     *)
(* each iteration order; an action picks one of them.                      *)
(*                                                                         *)
(* Values (interface{}) are tagged tuples <<kind, payload>>.  A string is  *)
(* a sequence of tokens; the token "|" is the pipe character and every     *)
(* other token is a run of characters without a pipe.                      *)
(***************************************************************************)
EXTENDS Integers, Sequences, FiniteSets, TLC

VARIABLES
    inValue,               \* the value handed to CastValue
    inValueType,           \* the valueType handed to ValidateValueType and CastValue
    validated,             \* what ValidateValueType(inValueType) returned, or NotCalled
    result,                \* what CastValue(inValue, inValueType) returned, or NotCalled
    recast,                \* what CastValue(the value of result, inValueType) returned, or NotCalled
    inRuntimeType,         \* the runtimeType handed to CheckValueRuntimeTypesMatch
    inSchemaType,          \* the schemaType handed to CheckValueRuntimeTypesMatch
    matched,               \* what CheckValueRuntimeTypesMatch returned, or NotCalled
    inColumnRuntimeTypes,  \* the columnRuntimeTypes handed to CheckColumnRuntimeTypesMatch
    inColumnSchemaTypes,   \* the columnSchemaTypes handed to CheckColumnRuntimeTypesMatch
    columnMatched,         \* what CheckColumnRuntimeTypesMatch returned, or NotCalled
    runtimeResult,         \* what CastValue(inValue, inRuntimeType) returned, or NotCalled
    schemaResult           \* what CastValue(inValue, inSchemaType) returned, or NotCalled

vars == <<inValue, inValueType, validated, result, recast, inRuntimeType, inSchemaType,
          matched, inColumnRuntimeTypes, inColumnSchemaTypes, columnMatched,
          runtimeResult, schemaResult>>

-----------------------------------------------------------------------------
(* Bounds of the model.                                                    *)

\* Most pipe-separated pieces in a type string drawn as an input.
MaxUnionLen == 2
\* Most elements in a sequence drawn as an input.
MaxListLen == 2
\* Most entries in a map drawn as an input.
MaxMapLen == 2

-----------------------------------------------------------------------------
(* Values.                                                                 *)

Null == <<"null", 0>>
IntV(n) == <<"int", n>>
\* A float is held in halves: FloatV(11) is 5.5, FloatV(10) is 5.0.
FloatV(h) == <<"float", h>>
StrV(toks) == <<"str", toks>>
BoolV(b) == <<"bool", b>>
SeqV(s) == <<"seq", s>>
\* A map is a set of <<key, value>> pairs with distinct keys.
MapV(entries) == <<"map", entries>>

IsNull(v) == v[1] = "null"
IsInt(v) == v[1] = "int"
IsFloat(v) == v[1] = "float"
IsString(v) == v[1] = "str"
IsBool(v) == v[1] = "bool"
IsSeq(v) == v[1] = "seq"
IsMap(v) == v[1] = "map"

MapKeys(entries) == {e[1] : e \in entries}
MapHas(entries, k) == \E e \in entries : e[1] = k
MapGet(entries, k) == (CHOOSE e \in entries : e[1] = k)[2]

Range(s) == {s[i] : i \in 1..Len(s)}

-----------------------------------------------------------------------------
(* Results.                                                                *)

NotCalled == <<"notcalled">>
\* A nil error.
Nil == <<"nil">>
\* A returned value with a nil error.
Ok(v) == <<"ok", v>>
\* An error: its kind, its location path (root first) and what it carries.
Err(kind, path, info) == <<"err", kind, path, info>>
\* A run-time panic (index out of range).
Panic == <<"panic">>

IsOk(r) == r[1] = "ok"
IsNil(r) == r[1] = "nil"
IsErr(r) == r[1] = "err"
IsPanic(r) == r[1] = "panic"
ErrKind(r) == r[2]
ErrPath(r) == r[3]
ErrInfo(r) == r[4]
Errs(rs) == {r \in rs : IsErr(r)}
Fails(rs) == {r \in rs : IsErr(r) \/ IsPanic(r)}

\* errors.Wrap(err, strs...): the segments go in front of the error's path.
Wrap(err, segs) == Err(ErrKind(err), segs \o ErrPath(err), ErrInfo(err))

-----------------------------------------------------------------------------
(* Strings.                                                                *)

Pipe == "|"

\* strings.Split(str, "|"): the pieces between the pipes, empty pieces kept;
\* splitting the empty string gives one empty piece.
RECURSIVE SplitFrom(_, _, _)
SplitFrom(str, i, piece) ==
    IF i > Len(str) THEN <<piece>>
    ELSE IF str[i] = Pipe THEN <<piece>> \o SplitFrom(str, i + 1, <<>>)
    ELSE SplitFrom(str, i + 1, Append(piece, str[i]))

Split(str) == SplitFrom(str, 1, <<>>)

\* slices.HasString(list, query)
HasString(list, query) == \E i \in 1..Len(list) : list[i] = query

Digits == <<"0", "1", "2", "3", "4", "5", "6", "7", "8", "9">>
IsDigit(tok) == \E d \in 1..10 : Digits[d] = tok
DigitVal(tok) == (CHOOSE d \in 1..10 : Digits[d] = tok) - 1

\* The decimal digits of a natural number.
RECURSIVE FmtNat(_)
FmtNat(n) == IF n < 10 THEN <<Digits[n + 1]>> ELSE Append(FmtNat(n \div 10), Digits[(n % 10) + 1])

\* A string that is a decimal numeral ("5", "12").
IsNumeral(str) == Len(str) > 0 /\ \A i \in 1..Len(str) : IsDigit(str[i])

RECURSIVE ParseNat(_)
ParseNat(str) ==
    IF Len(str) = 0 THEN 0
    ELSE 10 * ParseNat(SubSeq(str, 1, Len(str) - 1)) + DigitVal(str[Len(str)])

\* s.UserStrStripped(val): the value printed, a string printed without quotes.
UserStrStripped(v) ==
    CASE IsString(v) -> v[2]
      [] IsInt(v) -> FmtNat(v[2])
      [] IsFloat(v) -> IF v[2] % 2 = 0 THEN FmtNat(v[2] \div 2)
                       ELSE FmtNat(v[2] \div 2) \o <<".", "5">>
      [] IsBool(v) -> IF v[2] THEN <<"true">> ELSE <<"false">>
      [] IsNull(v) -> <<"<nil>">>
      [] OTHER -> <<"<container>">>

\* s.UserStr(val) of a map, as used for the MustBeEmpty error.
UserStr(v) == <<"{", "...", "}">>

\* s.Index(i): the path segment of the element at (zero-based) index i.
Index(i) == <<"index ">> \o FmtNat(i)

-----------------------------------------------------------------------------
(* pkg/lib/cast: the conversions the validators call.                      *)

\* cast.InterfaceToInt64(in): an integer, a float without a fraction, or a
\* string that is a numeral.
InterfaceToInt64Ok(in) ==
    \/ IsInt(in)
    \/ IsFloat(in) /\ in[2] % 2 = 0
    \/ IsString(in) /\ IsNumeral(in[2])

InterfaceToInt64(in) ==
    CASE IsInt(in) -> in
      [] IsFloat(in) -> IntV(in[2] \div 2)
      [] OTHER -> IntV(ParseNat(in[2]))

\* cast.InterfaceToFloat64(in): a float, an integer, or a string that is a numeral.
InterfaceToFloat64Ok(in) ==
    \/ IsFloat(in)
    \/ IsInt(in)
    \/ IsString(in) /\ IsNumeral(in[2])

InterfaceToFloat64(in) ==
    CASE IsFloat(in) -> in
      [] IsInt(in) -> FloatV(2 * in[2])
      [] OTHER -> FloatV(2 * ParseNat(in[2]))

\* cast.InterfaceToStrSlice(in): nil gives a nil slice; a sequence gives its
\* strings, provided every element is a string.
InterfaceToStrSliceOk(in) ==
    \/ IsNull(in)
    \/ IsSeq(in) /\ \A i \in 1..Len(in[2]) : IsString(in[2][i])

InterfaceToStrSlice(in) == IF IsNull(in) THEN <<>> ELSE [i \in 1..Len(in[2]) |-> in[2][i][2]]

\* cast.InterfaceToInterfaceSlice(in)
InterfaceToInterfaceSliceOk(in) == IsNull(in) \/ IsSeq(in)

InterfaceToInterfaceSlice(in) == IF IsNull(in) THEN <<>> ELSE in[2]

\* cast.InterfaceToInterfaceInterfaceMap(in): nil gives a nil (empty) map.
InterfaceToInterfaceInterfaceMapOk(in) == IsNull(in) \/ IsMap(in)

InterfaceToInterfaceInterfaceMap(in) == IF IsNull(in) THEN {} ELSE in[2]

-----------------------------------------------------------------------------
(* Kind names and errors.                                                  *)

\* ValueType.String()
IntegerValueType == <<"INT">>
FloatValueType == <<"FLOAT">>
StringValueType == <<"STRING">>
BoolValueType == <<"BOOL">>

\* ValueTypeStrings()
ValueTypeStrings == <<IntegerValueType, FloatValueType, StringValueType, BoolValueType>>

\* s.PrimitiveType names carried by InvalidPrimitiveType.
PrimTypeInt == "PrimTypeInt"
PrimTypeFloat == "PrimTypeFloat"
PrimTypeString == "PrimTypeString"
PrimTypeBool == "PrimTypeBool"
PrimTypeMap == "PrimTypeMap"
PrimTypeList == "PrimTypeList"

ErrorInvalidValueDataType(provided) == Err("InvalidValueDataType", <<>>, provided)
ErrorTypeListLength(provided) == Err("TypeListLength", <<>>, provided)
ErrorGenericTypeMapLength(provided) == Err("GenericTypeMapLength", <<>>, provided)
ErrorInvalidPrimitiveType(provided, allowed) == Err("InvalidPrimitiveType", <<>>, <<provided, allowed>>)
ErrorMustBeDefined == Err("MustBeDefined", <<>>, <<>>)
ErrorMustBeEmpty == Err("MustBeEmpty", <<>>, <<>>)
ErrorUnsupportedKey(key) == Err("UnsupportedKey", <<>>, key)
ErrorUnsupportedDataType(provided, allowed) == Err("UnsupportedDataType", <<>>, <<provided, allowed>>)

-----------------------------------------------------------------------------
(* ValidateValueType.                                                      *)

isValidValueType(valueTypeStr) ==
    \A i \in 1..Len(Split(valueTypeStr)) : HasString(ValueTypeStrings, Split(valueTypeStr)[i])

\* foundGenericKey looking for a generic key only in a map of one entry, as
\* the caster does.
foundGenericKeySingle(valueTypeMap) ==
    /\ Cardinality(valueTypeMap) = 1
    /\ \E key \in MapKeys(valueTypeMap) : IsString(key) /\ isValidValueType(key[2])

\* Lines 203-211: whether some key of the map is a string naming a valid union.
foundGenericKey(valueTypeMap) ==
    \E key \in MapKeys(valueTypeMap) : IsString(key) /\ isValidValueType(key[2])

\* ValidateListType looking at the first element only, whatever the length.
ValidateListTypeFirstOnly(valueType, valueTypeStrs) ==
    IF Len(valueTypeStrs) = 0 THEN Wrap(ErrorTypeListLength(valueType), <<>>)
    ELSE IF ~isValidValueType(valueTypeStrs[1])
    THEN ErrorInvalidValueDataType(StrV(valueTypeStrs[1]))
    ELSE Nil

\* Lines 192-200: a type expression that is a slice of strings.
ValidateListType(valueType, valueTypeStrs) ==
    IF Len(valueTypeStrs) # 1 THEN Wrap(ErrorTypeListLength(valueType), <<>>)
    ELSE IF ~isValidValueType(valueTypeStrs[1])
    THEN ErrorInvalidValueDataType(StrV(valueTypeStrs[1]))
    ELSE Nil

RECURSIVE ValidateValueType(_)
ValidateValueType(valueType) ==
    IF IsString(valueType) THEN
        IF ~isValidValueType(valueType[2])
        THEN {ErrorInvalidValueDataType(valueType)}
        ELSE {Nil}
    ELSE IF InterfaceToStrSliceOk(valueType) THEN
        {ValidateListType(valueType, InterfaceToStrSlice(valueType))}
    ELSE IF InterfaceToInterfaceInterfaceMapOk(valueType) THEN
        LET valueTypeMap == InterfaceToInterfaceInterfaceMap(valueType)
            found == foundGenericKey(valueTypeMap)
            \* what one iteration of the loop of lines 216-227 returns, if it returns
            entryErrs(e) ==
                LET keyErrs == IF found THEN Errs(ValidateValueType(e[1])) ELSE {}
                IN  IF keyErrs # {} THEN keyErrs
                    ELSE {Wrap(err, <<UserStrStripped(e[1])>>) : err \in Errs(ValidateValueType(e[2]))}
            errs == UNION {entryErrs(e) : e \in valueTypeMap}
        IN  IF found /\ Cardinality(valueTypeMap) # 1
            THEN {ErrorGenericTypeMapLength(valueType)}
            ELSE IF errs # {} THEN errs ELSE {Nil}
    ELSE {ErrorInvalidValueDataType(valueType)}

\* ValidateValue: a hook that accepts every value.
ValidateValue(v) == Nil

-----------------------------------------------------------------------------
(* CastValue.                                                              *)

\* The functions on keys that map each key to one of its choices: the maps a
\* loop can build when it stores, for every key, one of several values.
Products(keys, choices(_)) ==
    {f \in [keys -> UNION {choices(k) : k \in keys}] : \A k \in keys : f[k] \in choices(k)}

OkValues(rs) == {r[2] : r \in {x \in rs : IsOk(x)}}

\* CastUnion trying the string kind before the numeric kinds.
CastUnionStringFirst(value, valueTypeStr) ==
    LET validTypes == Split(valueTypeStr)
        hasInt == HasString(validTypes, IntegerValueType)
        hasFloat == HasString(validTypes, FloatValueType)
        hasString == HasString(validTypes, StringValueType)
        hasBool == HasString(validTypes, BoolValueType)
        validTypeNames ==
            (IF hasInt THEN <<PrimTypeInt>> ELSE <<>>)
            \o (IF hasFloat THEN <<PrimTypeFloat>> ELSE <<>>)
            \o (IF hasString THEN <<PrimTypeString>> ELSE <<>>)
            \o (IF hasBool THEN <<PrimTypeBool>> ELSE <<>>)
    IN  IF hasString /\ IsString(value) THEN Ok(value)
        ELSE IF hasInt /\ InterfaceToInt64Ok(value) THEN Ok(InterfaceToInt64(value))
        ELSE IF hasFloat /\ InterfaceToFloat64Ok(value) THEN Ok(InterfaceToFloat64(value))
        ELSE IF hasBool /\ IsBool(value) THEN Ok(value)
        ELSE ErrorInvalidPrimitiveType(value, validTypeNames)

\* Lines 262-293: a value against a union string.
CastUnion(value, valueTypeStr) ==
    LET validTypes == Split(valueTypeStr)
        hasInt == HasString(validTypes, IntegerValueType)
        hasFloat == HasString(validTypes, FloatValueType)
        hasString == HasString(validTypes, StringValueType)
        hasBool == HasString(validTypes, BoolValueType)
        validTypeNames ==
            (IF hasInt THEN <<PrimTypeInt>> ELSE <<>>)
            \o (IF hasFloat THEN <<PrimTypeFloat>> ELSE <<>>)
            \o (IF hasString THEN <<PrimTypeString>> ELSE <<>>)
            \o (IF hasBool THEN <<PrimTypeBool>> ELSE <<>>)
    IN  IF hasInt /\ InterfaceToInt64Ok(value) THEN Ok(InterfaceToInt64(value))
        ELSE IF hasFloat /\ InterfaceToFloat64Ok(value) THEN Ok(InterfaceToFloat64(value))
        ELSE IF hasString /\ IsString(value) THEN Ok(value)
        ELSE IF hasBool /\ IsBool(value) THEN Ok(value)
        ELSE ErrorInvalidPrimitiveType(value, validTypeNames)

\* Lines 308-321: whether CastValue treats the type map as a generic map.
CastIsGenericMap(valueTypeMap) ==
    /\ Cardinality(valueTypeMap) = 1
    /\ \E e \in valueTypeMap : IsString(e[1]) /\ isValidValueType(e[1][2])

RECURSIVE CastValue(_, _)

\* CastGenericMap returning the error of an entry's value as it is, without
\* the entry's key in front of its path.
CastGenericMapNoWrap(valueMap, genericMapKeyType, genericMapValueType) ==
    LET entryErrs(e) ==
            LET keyErrs == Errs(CastValue(e[1], genericMapKeyType))
            IN  IF keyErrs # {} THEN keyErrs
                ELSE Errs(CastValue(e[2], genericMapValueType))
        errs == UNION {entryErrs(e) : e \in valueMap}
        valueKeyCasted(e) == CHOOSE k \in OkValues(CastValue(e[1], genericMapKeyType)) : TRUE
        keysCasted == {valueKeyCasted(e) : e \in valueMap}
        choices(k) == UNION {OkValues(CastValue(e[2], genericMapValueType)) :
                                e \in {x \in valueMap : valueKeyCasted(x) = k}}
    IN  IF errs # {} THEN errs
        ELSE {Ok(MapV({<<k, f[k]>> : k \in keysCasted})) : f \in Products(keysCasted, choices)}

\* Lines 323-337: a map against a generic map type.
CastGenericMap(valueMap, genericMapKeyType, genericMapValueType) ==
    LET entryErrs(e) ==
            LET keyErrs == Errs(CastValue(e[1], genericMapKeyType))
            IN  IF keyErrs # {} THEN keyErrs
                ELSE {Wrap(err, <<UserStrStripped(e[1])>>) :
                        err \in Errs(CastValue(e[2], genericMapValueType))}
        errs == UNION {entryErrs(e) : e \in valueMap}
        valueKeyCasted(e) == CHOOSE k \in OkValues(CastValue(e[1], genericMapKeyType)) : TRUE
        keysCasted == {valueKeyCasted(e) : e \in valueMap}
        \* valueMapCasted[valueKeyCasted] = valueValCasted: the last entry written wins
        choices(k) == UNION {OkValues(CastValue(e[2], genericMapValueType)) :
                                e \in {x \in valueMap : valueKeyCasted(x) = k}}
    IN  IF errs # {} THEN errs
        ELSE {Ok(MapV({<<k, f[k]>> : k \in keysCasted})) : f \in Products(keysCasted, choices)}

\* CastFixedMap without its second loop: undeclared keys are let through.
CastFixedMapNoUnsupported(valueMap, valueTypeMap) ==
    LET entryErrs(e) ==
            IF ~MapHas(valueMap, e[1])
            THEN {Wrap(ErrorMustBeDefined, <<UserStrStripped(e[1])>>)}
            ELSE {Wrap(err, <<UserStrStripped(e[1])>>) :
                    err \in Errs(CastValue(MapGet(valueMap, e[1]), e[2]))}
        errs == UNION {entryErrs(e) : e \in valueTypeMap}
        choices(k) == OkValues(CastValue(MapGet(valueMap, k), MapGet(valueTypeMap, k)))
    IN  IF errs # {} THEN errs
        ELSE {Ok(MapV({<<k, f[k]>> : k \in MapKeys(valueTypeMap)})) :
                f \in Products(MapKeys(valueTypeMap), choices)}

\* CastFixedMap skipping a declared field the value does not hold.
CastFixedMapSkipMissing(valueMap, valueTypeMap) ==
    LET present == {e \in valueTypeMap : MapHas(valueMap, e[1])}
        entryErrs(e) ==
            {Wrap(err, <<UserStrStripped(e[1])>>) :
                err \in Errs(CastValue(MapGet(valueMap, e[1]), e[2]))}
        errs == UNION {entryErrs(e) : e \in present}
        unsupported == {ErrorUnsupportedKey(k) : k \in MapKeys(valueMap) \ MapKeys(valueTypeMap)}
        choices(k) == OkValues(CastValue(MapGet(valueMap, k), MapGet(valueTypeMap, k)))
    IN  IF errs # {} THEN errs
        ELSE IF unsupported # {} THEN unsupported
        ELSE {Ok(MapV({<<k, f[k]>> : k \in MapKeys(present)})) :
                f \in Products(MapKeys(present), choices)}

\* Lines 339-357: a map against a map type that is not generic.
CastFixedMap(valueMap, valueTypeMap) ==
    LET entryErrs(e) ==
            IF ~MapHas(valueMap, e[1])
            THEN {Wrap(ErrorMustBeDefined, <<UserStrStripped(e[1])>>)}
            ELSE {Wrap(err, <<UserStrStripped(e[1])>>) :
                    err \in Errs(CastValue(MapGet(valueMap, e[1]), e[2]))}
        errs == UNION {entryErrs(e) : e \in valueTypeMap}
        unsupported == {ErrorUnsupportedKey(k) : k \in MapKeys(valueMap) \ MapKeys(valueTypeMap)}
        choices(k) == OkValues(CastValue(MapGet(valueMap, k), MapGet(valueTypeMap, k)))
    IN  IF errs # {} THEN errs
        ELSE IF unsupported # {} THEN unsupported
        ELSE {Ok(MapV({<<k, f[k]>> : k \in MapKeys(valueTypeMap)})) :
                f \in Products(MapKeys(valueTypeMap), choices)}

\* CastList filling the result from its last position down.
CastListReversed(value, valueTypeStr) ==
    IF ~InterfaceToInterfaceSliceOk(value)
    THEN {ErrorInvalidPrimitiveType(value, <<PrimTypeList>>)}
    ELSE
        LET valueSlice == InterfaceToInterfaceSlice(value)
            item(i) == CastValue(valueSlice[i], StrV(valueTypeStr))
            failing == {i \in 1..Len(valueSlice) : Errs(item(i)) # {}}
            first == CHOOSE i \in failing : \A j \in failing : i <= j
            choices(i) == OkValues(item(i))
        IN  IF failing # {}
            THEN {Wrap(err, <<Index(first - 1)>>) : err \in Errs(item(first))}
            ELSE {Ok(SeqV([i \in 1..Len(valueSlice) |-> f[Len(valueSlice) + 1 - i]])) :
                    f \in Products(1..Len(valueSlice), choices)}

\* Lines 360-375: a value against a list type.
CastList(value, valueTypeStr) ==
    IF ~InterfaceToInterfaceSliceOk(value)
    THEN {ErrorInvalidPrimitiveType(value, <<PrimTypeList>>)}
    ELSE
        LET valueSlice == InterfaceToInterfaceSlice(value)
            item(i) == CastValue(valueSlice[i], StrV(valueTypeStr))
            failing == {i \in 1..Len(valueSlice) : Errs(item(i)) # {}}
            first == CHOOSE i \in failing : \A j \in failing : i <= j
            choices(i) == OkValues(item(i))
        IN  IF failing # {}
            THEN {Wrap(err, <<Index(first - 1)>>) : err \in Errs(item(first))}
            ELSE {Ok(SeqV([i \in 1..Len(valueSlice) |-> f[i]])) :
                    f \in Products(1..Len(valueSlice), choices)}

CastValue(value, valueType) ==
    LET invalid == Errs(ValidateValueType(valueType)) IN
    IF invalid # {} THEN invalid
    ELSE IF IsErr(ValidateValue(value)) THEN {ValidateValue(value)}
    ELSE IF IsNull(value) THEN {Ok(Null)}
    ELSE IF IsString(valueType) THEN {CastUnion(value, valueType[2])}
    ELSE IF InterfaceToInterfaceInterfaceMapOk(valueType) THEN
        LET valueTypeMap == InterfaceToInterfaceInterfaceMap(valueType) IN
        IF ~InterfaceToInterfaceInterfaceMapOk(value)
        THEN {ErrorInvalidPrimitiveType(value, <<PrimTypeMap>>)}
        ELSE
            LET valueMap == InterfaceToInterfaceInterfaceMap(value) IN
            IF Cardinality(valueTypeMap) = 0 THEN
                IF Cardinality(valueMap) = 0 THEN {Ok(MapV({}))}
                ELSE {Wrap(ErrorMustBeEmpty, <<UserStr(value)>>)}
            ELSE IF CastIsGenericMap(valueTypeMap) THEN
                LET e == CHOOSE x \in valueTypeMap : TRUE
                IN  CastGenericMap(valueMap, e[1], e[2])
            ELSE CastFixedMap(valueMap, valueTypeMap)
    ELSE IF InterfaceToStrSliceOk(valueType) THEN
        CastList(value, InterfaceToStrSlice(valueType)[1])
    ELSE {ErrorInvalidValueDataType(valueType)}

-----------------------------------------------------------------------------
(* CheckValueRuntimeTypesMatch.                                            *)

\* An error with the segments in front of its path; a panic is not wrapped.
WrapFail(r, segs) == IF IsPanic(r) THEN r ELSE Wrap(r, segs)

\* MatchUnion asking for one piece of the runtime type in the schema, not all.
MatchUnionOverlap(runtimeType, schemaTypeStr) ==
    LET validTypes == Split(schemaTypeStr) IN
    IF ~IsString(runtimeType)
    THEN ErrorUnsupportedDataType(runtimeType, StrV(schemaTypeStr))
    ELSE IF \A i \in 1..Len(Split(runtimeType[2])) : ~HasString(validTypes, Split(runtimeType[2])[i])
    THEN ErrorUnsupportedDataType(runtimeType, StrV(schemaTypeStr))
    ELSE Nil

\* Lines 415-427: a runtime type against a union string.
MatchUnion(runtimeType, schemaTypeStr) ==
    LET validTypes == Split(schemaTypeStr) IN
    IF ~IsString(runtimeType)
    THEN ErrorUnsupportedDataType(runtimeType, StrV(schemaTypeStr))
    ELSE IF \E i \in 1..Len(Split(runtimeType[2])) : ~HasString(validTypes, Split(runtimeType[2])[i])
    THEN ErrorUnsupportedDataType(runtimeType, StrV(schemaTypeStr))
    ELSE Nil

\* Lines 435-448: whether CheckValueRuntimeTypesMatch treats the schema map as generic.
MatchIsGenericMap(schemaTypeMap) ==
    /\ Cardinality(schemaTypeMap) = 1
    /\ \E e \in schemaTypeMap : IsString(e[1]) /\ isValidValueType(e[1][2])

\* MatchList asking only that the runtime type is a slice of strings with a
\* first element, whatever its pieces.
MatchListShapeOnly(runtimeType, schemaType, schemaTypeStrs) ==
    IF Len(schemaTypeStrs) = 0 THEN Panic
    ELSE IF ~InterfaceToStrSliceOk(runtimeType)
    THEN ErrorUnsupportedDataType(runtimeType, schemaType)
    ELSE IF Len(InterfaceToStrSlice(runtimeType)) = 0 THEN Panic
    ELSE Nil

\* Lines 483-495: a runtime type against a schema that is a slice of strings.
MatchList(runtimeType, schemaType, schemaTypeStrs) ==
    IF Len(schemaTypeStrs) = 0 THEN Panic
    ELSE
        LET validTypes == Split(schemaTypeStrs[1]) IN
        IF ~InterfaceToStrSliceOk(runtimeType)
        THEN ErrorUnsupportedDataType(runtimeType, schemaType)
        ELSE
            LET runtimeTypeStrs == InterfaceToStrSlice(runtimeType) IN
            IF Len(runtimeTypeStrs) = 0 THEN Panic
            ELSE IF \E i \in 1..Len(Split(runtimeTypeStrs[1])) :
                        ~HasString(validTypes, Split(runtimeTypeStrs[1])[i])
            THEN ErrorUnsupportedDataType(runtimeType, schemaType)
            ELSE Nil

RECURSIVE CheckValueRuntimeTypesMatch(_, _)
CheckValueRuntimeTypesMatch(runtimeType, schemaType) ==
    IF IsString(schemaType) THEN {MatchUnion(runtimeType, schemaType[2])}
    ELSE IF InterfaceToInterfaceInterfaceMapOk(schemaType) THEN
        LET schemaTypeMap == InterfaceToInterfaceInterfaceMap(schemaType) IN
        IF ~InterfaceToInterfaceInterfaceMapOk(runtimeType)
        THEN {ErrorUnsupportedDataType(runtimeType, schemaType)}
        ELSE
            LET runtimeTypeMap == InterfaceToInterfaceInterfaceMap(runtimeType) IN
            IF MatchIsGenericMap(schemaTypeMap) THEN
                LET s == CHOOSE x \in schemaTypeMap : TRUE
                    entryFails(e) ==
                        LET keyFails == Fails(CheckValueRuntimeTypesMatch(e[1], s[1]))
                        IN  IF keyFails # {} THEN keyFails
                            ELSE {WrapFail(r, <<UserStrStripped(e[1])>>) :
                                    r \in Fails(CheckValueRuntimeTypesMatch(e[2], s[2]))}
                    fails == UNION {entryFails(e) : e \in runtimeTypeMap}
                IN  IF fails # {} THEN fails ELSE {Nil}
            ELSE
                LET entryFails(e) ==
                        IF ~MapHas(runtimeTypeMap, e[1])
                        THEN {Wrap(ErrorMustBeDefined, <<UserStrStripped(e[1])>>)}
                        ELSE {WrapFail(r, <<UserStrStripped(e[1])>>) :
                                r \in Fails(CheckValueRuntimeTypesMatch(MapGet(runtimeTypeMap, e[1]), e[2]))}
                    fails == UNION {entryFails(e) : e \in schemaTypeMap}
                    unsupported == {ErrorUnsupportedKey(k) :
                                        k \in MapKeys(runtimeTypeMap) \ MapKeys(schemaTypeMap)}
                IN  IF fails # {} THEN fails
                    ELSE IF unsupported # {} THEN unsupported
                    ELSE {Nil}
    ELSE IF InterfaceToStrSliceOk(schemaType) THEN
        {MatchList(runtimeType, schemaType, InterfaceToStrSlice(schemaType))}
    ELSE {ErrorInvalidValueDataType(schemaType)}

-----------------------------------------------------------------------------
(* Column types.                                                           *)

\* The names of the ColumnType enumeration; the first is UnknownColumnType.
ColumnTypeNames ==
    <<<<"unknown">>, <<"INT_COLUMN">>, <<"FLOAT_COLUMN">>, <<"STRING_COLUMN">>,
      <<"INT_LIST_COLUMN">>, <<"FLOAT_LIST_COLUMN">>, <<"STRING_LIST_COLUMN">>>>

\* A ColumnType is held by its position in the enumeration.
ColT(i) == <<"coltype", i>>
\* A []ColumnType
ColTs(q) == <<"coltypes", q>>
IsColumnType(v) == v[1] = "coltype"
IsColumnTypeSlice(v) == v[1] = "coltypes"
UnknownColumnType == ColT(1)

\* ColumnType.String()
ColumnTypeString(columnType) == ColumnTypeNames[columnType[2]]

\* ColumnTypeStrings(): every name but "unknown".
ColumnTypeStrings == Tail(ColumnTypeNames)

ErrorInvalidColumnInputType(provided) == Err("InvalidColumnInputType", <<>>, provided)
ErrorInvalidColumnRuntimeType == Err("InvalidColumnRuntimeType", <<>>, <<>>)
ErrorUnsupportedColumnType(provided, allowed) == Err("UnsupportedColumnType", <<>>, <<provided, allowed>>)
ErrorMapMustBeDefined(keys) == Err("MapMustBeDefined", <<>>, keys)
ErrorColumnUnsupportedKey(key) == Err("UnsupportedKey", <<>>, key)

isValidColumnInputType(columnTypeStr) ==
    \A i \in 1..Len(Split(columnTypeStr)) : HasString(ColumnTypeStrings, Split(columnTypeStr)[i])

\* Lines 49-68: what one entry of columnTypes makes ValidateColumnInputTypes return.
ValidateColumnInputType(columnInputName, columnType) ==
    IF IsString(columnType) THEN
        IF ~isValidColumnInputType(columnType[2])
        THEN Wrap(ErrorInvalidColumnInputType(columnType), <<columnInputName>>)
        ELSE Nil
    ELSE IF InterfaceToStrSliceOk(columnType) THEN
        LET columnTypeStrs == InterfaceToStrSlice(columnType) IN
        IF Len(columnTypeStrs) # 1
        THEN Wrap(ErrorTypeListLength(columnType), <<columnInputName>>)
        ELSE IF ~isValidColumnInputType(columnTypeStrs[1])
        THEN Wrap(ErrorInvalidColumnInputType(columnType), <<columnInputName>>)
        ELSE Nil
    ELSE Wrap(ErrorInvalidColumnInputType(columnType), <<columnInputName>>)

ValidateColumnInputTypes(columnTypes) ==
    LET errs == Errs({ValidateColumnInputType(e[1], e[2]) : e \in columnTypes})
    IN  IF errs # {} THEN errs ELSE {Nil}

\* Lines 91-107: what one entry makes ValidateColumnRuntimeTypes return.
ValidateColumnRuntimeType(columnInputName, columnTypeInter) ==
    IF IsColumnType(columnTypeInter) THEN
        IF columnTypeInter = UnknownColumnType
        THEN Wrap(ErrorInvalidColumnRuntimeType, <<columnInputName>>)
        ELSE Nil
    ELSE IF IsColumnTypeSlice(columnTypeInter) THEN
        LET columnTypes == columnTypeInter[2]
            unknown == {i \in 1..Len(columnTypes) : columnTypes[i] = UnknownColumnType}
            first == CHOOSE i \in unknown : \A j \in unknown : i <= j
        IN  IF unknown # {}
            THEN Wrap(ErrorInvalidColumnRuntimeType, <<columnInputName, Index(first - 1)>>)
            ELSE Nil
    ELSE Wrap(ErrorInvalidColumnRuntimeType, <<columnInputName>>)

ValidateColumnRuntimeTypes(columnRuntimeTypes) ==
    LET errs == Errs({ValidateColumnRuntimeType(e[1], e[2]) : e \in columnRuntimeTypes})
    IN  IF errs # {} THEN errs ELSE {Nil}

\* Lines 123-160: what one entry of columnSchemaTypes makes the first loop of
\* CheckColumnRuntimeTypesMatch return.
CheckColumnEntry(columnRuntimeTypes, columnSchemaTypes, columnInputName, columnSchemaType) ==
    IF Cardinality(columnRuntimeTypes) = 0
    THEN ErrorMapMustBeDefined(MapKeys(columnSchemaTypes))
    ELSE IF ~MapHas(columnRuntimeTypes, columnInputName)
    THEN Wrap(ErrorMustBeDefined, <<columnInputName>>)
    ELSE
        LET columnRuntimeTypeInter == MapGet(columnRuntimeTypes, columnInputName) IN
        IF IsString(columnSchemaType) THEN
            LET validTypes == Split(columnSchemaType[2]) IN
            IF ~IsColumnType(columnRuntimeTypeInter)
            THEN Wrap(ErrorUnsupportedColumnType(columnRuntimeTypeInter, validTypes), <<columnInputName>>)
            ELSE IF ~HasString(validTypes, ColumnTypeString(columnRuntimeTypeInter))
            THEN Wrap(ErrorUnsupportedColumnType(columnRuntimeTypeInter, validTypes), <<columnInputName>>)
            ELSE Nil
        ELSE IF InterfaceToStrSliceOk(columnSchemaType) THEN
            LET columnSchemaTypeStrs == InterfaceToStrSlice(columnSchemaType) IN
            IF Len(columnSchemaTypeStrs) = 0 THEN Panic
            ELSE
                LET validTypes == Split(columnSchemaTypeStrs[1]) IN
                IF ~IsColumnTypeSlice(columnRuntimeTypeInter)
                THEN Wrap(ErrorUnsupportedColumnType(columnRuntimeTypeInter, validTypes), <<columnInputName>>)
                ELSE
                    LET columnRuntimeTypeSlice == columnRuntimeTypeInter[2]
                        bad == {i \in 1..Len(columnRuntimeTypeSlice) :
                                    ~HasString(validTypes, ColumnTypeString(columnRuntimeTypeSlice[i]))}
                        first == CHOOSE i \in bad : \A j \in bad : i <= j
                    IN  IF bad # {}
                        THEN Wrap(ErrorUnsupportedColumnType(columnRuntimeTypeSlice[first], validTypes),
                                  <<columnInputName, Index(first - 1)>>)
                        ELSE Nil
        ELSE Wrap(ErrorInvalidColumnInputType(columnSchemaType), <<columnInputName>>)

\* CheckColumnRuntimeTypesMatch without its second loop: resolved names that
\* are not declared are let through.
CheckColumnRuntimeTypesMatchNoUnsupported(columnRuntimeTypes, columnSchemaTypes) ==
    LET schemaErrs == Errs(ValidateColumnInputTypes(columnSchemaTypes))
        runtimeErrs == Errs(ValidateColumnRuntimeTypes(columnRuntimeTypes))
        fails == Fails({CheckColumnEntry(columnRuntimeTypes, columnSchemaTypes, e[1], e[2]) :
                            e \in columnSchemaTypes})
    IN  IF schemaErrs # {} THEN schemaErrs
        ELSE IF runtimeErrs # {} THEN runtimeErrs
        ELSE IF fails # {} THEN fails
        ELSE {Nil}

CheckColumnRuntimeTypesMatch(columnRuntimeTypes, columnSchemaTypes) ==
    LET schemaErrs == Errs(ValidateColumnInputTypes(columnSchemaTypes))
        runtimeErrs == Errs(ValidateColumnRuntimeTypes(columnRuntimeTypes))
        fails == Fails({CheckColumnEntry(columnRuntimeTypes, columnSchemaTypes, e[1], e[2]) :
                            e \in columnSchemaTypes})
        unsupported == {ErrorColumnUnsupportedKey(k) :
                            k \in MapKeys(columnRuntimeTypes) \ MapKeys(columnSchemaTypes)}
    IN  IF schemaErrs # {} THEN schemaErrs
        ELSE IF runtimeErrs # {} THEN runtimeErrs
        ELSE IF fails # {} THEN fails
        ELSE IF unsupported # {} THEN unsupported
        ELSE {Nil}

-----------------------------------------------------------------------------
(* The inputs the specifications draw from.                                *)

\* The sequences over S of at most n elements.
SeqsUpTo(S, n) == UNION {[1..k -> S] : k \in 0..n}

\* The maps with keys in K and values in V of at most n entries.
MapsUpTo(K, V, n) ==
    UNION {{{<<k, f[k]>> : k \in Ks} : f \in [Ks -> V]} :
            Ks \in {X \in SUBSET K : Cardinality(X) <= n}}

\* strings.Join(pieces, "|")
RECURSIVE Join(_)
Join(pieces) ==
    IF Len(pieces) = 0 THEN <<>>
    ELSE IF Len(pieces) = 1 THEN pieces[1]
    ELSE pieces[1] \o <<Pipe>> \o Join(Tail(pieces))

\* Type strings: the pieces are the four kind names, an unknown name and the
\* empty piece, in every order and with repetitions.
Pieces == {IntegerValueType, FloatValueType, StringValueType, BoolValueType, <<"BOGUS">>, <<>>}
TypeStrs == {StrV(Join(ps)) : ps \in SeqsUpTo(Pieces, MaxUnionLen) \ {<<>>}}

TInt == StrV(IntegerValueType)
TString == StrV(StringValueType)
\* Type expressions nested in a list or a map.
InnerTypes ==
    {TInt, TString, StrV(<<"BOGUS">>), SeqV(<<TInt>>),
     MapV({<<TString, TInt>>}), MapV({<<StrV(<<"x">>), TInt>>})}
ListTypes == {SeqV(q) : q \in SeqsUpTo({TInt, StrV(<<"BOGUS">>), SeqV(<<TInt>>)}, MaxListLen)}
MapTypes == {MapV(m) : m \in MapsUpTo({TInt, StrV(<<"x">>), StrV(<<"y">>)}, InnerTypes, MaxMapLen)}
ValueTypes == TypeStrs \cup ListTypes \cup MapTypes \cup {Null, IntV(5)}

\* Values.
LeafValues ==
    {Null, IntV(5), FloatV(10), FloatV(11), StrV(<<"5">>), StrV(<<"x">>), BoolV(TRUE)}
InnerValues ==
    {StrV(<<"5">>), StrV(<<"x">>), SeqV(<<StrV(<<"5">>)>>), SeqV(<<StrV(<<"5">>), StrV(<<"x">>)>>),
     MapV({<<StrV(<<"x">>), StrV(<<"5">>)>>}), MapV({<<StrV(<<"x">>), StrV(<<"x">>)>>})}
SeqValues == {SeqV(q) : q \in SeqsUpTo({IntV(5), StrV(<<"7">>), StrV(<<"x">>)}, MaxListLen)}
MapValues ==
    {MapV(m) : m \in MapsUpTo({StrV(<<"x">>), StrV(<<"y">>), StrV(<<"5">>), IntV(5)},
                              InnerValues, MaxMapLen)}
Values == LeafValues \cup SeqValues \cup MapValues

\* Column inputs: names, declared types and resolved runtime types.
ColumnNames == {<<"a">>, <<"b">>}
ColumnPieces == {<<"INT_COLUMN">>, <<"FLOAT_COLUMN">>, <<"unknown">>}
ColumnTypeStrs == {StrV(Join(ps)) : ps \in SeqsUpTo(ColumnPieces, MaxUnionLen) \ {<<>>}}
ColumnSchemaEntries ==
    ColumnTypeStrs
    \cup {SeqV(q) : q \in SeqsUpTo({StrV(<<"INT_COLUMN">>), StrV(<<"INT_COLUMN", Pipe, "FLOAT_COLUMN">>)},
                                   MaxListLen)}
    \cup {IntV(5)}
ColumnRuntimeEntries ==
    {ColT(i) : i \in 1..3}
    \cup {ColTs(q) : q \in SeqsUpTo({ColT(i) : i \in 1..3}, MaxListLen)}
    \cup {StrV(<<"INT_COLUMN">>)}
ColumnSchemaMaps == MapsUpTo(ColumnNames, ColumnSchemaEntries, MaxMapLen)
ColumnRuntimeMaps == MapsUpTo(ColumnNames, ColumnRuntimeEntries, MaxMapLen)

-----------------------------------------------------------------------------
(* Specification SpecCast: a type expression is validated, a value is cast *)
(* against it, and the value that came out is cast against it again.       *)

InitCast ==
    /\ inValue \in Values
    /\ inValueType \in ValueTypes
    /\ validated = NotCalled
    /\ result = NotCalled
    /\ recast = NotCalled
    /\ inRuntimeType = Null
    /\ inSchemaType = Null
    /\ matched = NotCalled
    /\ inColumnRuntimeTypes = {}
    /\ inColumnSchemaTypes = {}
    /\ columnMatched = NotCalled
    /\ runtimeResult = NotCalled
    /\ schemaResult = NotCalled

CallValidateValueType ==
    /\ validated = NotCalled
    /\ validated' \in ValidateValueType(inValueType)
    /\ UNCHANGED <<inValue, inValueType, result, recast, inRuntimeType, inSchemaType,
                   matched, inColumnRuntimeTypes, inColumnSchemaTypes, columnMatched,
                   runtimeResult, schemaResult>>

CallCastValue ==
    /\ validated # NotCalled
    /\ result = NotCalled
    /\ result' \in CastValue(inValue, inValueType)
    /\ UNCHANGED <<inValue, inValueType, validated, recast, inRuntimeType, inSchemaType,
                   matched, inColumnRuntimeTypes, inColumnSchemaTypes, columnMatched,
                   runtimeResult, schemaResult>>

CallCastValueAgain ==
    /\ IsOk(result)
    /\ recast = NotCalled
    /\ recast' \in CastValue(result[2], inValueType)
    /\ UNCHANGED <<inValue, inValueType, validated, result, inRuntimeType, inSchemaType,
                   matched, inColumnRuntimeTypes, inColumnSchemaTypes, columnMatched,
                   runtimeResult, schemaResult>>

NextCast == CallValidateValueType \/ CallCastValue \/ CallCastValueAgain

SpecCast == InitCast /\ [][NextCast]_vars

-----------------------------------------------------------------------------
(* Specification SpecMatch: a runtime type is matched against a schema     *)
(* type.                                                                   *)

InitMatch ==
    /\ inRuntimeType \in ValueTypes
    /\ inSchemaType \in ValueTypes
    /\ matched = NotCalled
    /\ inValue = Null
    /\ inValueType = Null
    /\ validated = NotCalled
    /\ result = NotCalled
    /\ recast = NotCalled
    /\ inColumnRuntimeTypes = {}
    /\ inColumnSchemaTypes = {}
    /\ columnMatched = NotCalled
    /\ runtimeResult = NotCalled
    /\ schemaResult = NotCalled

CallCheckValueRuntimeTypesMatch ==
    /\ matched = NotCalled
    /\ matched' \in CheckValueRuntimeTypesMatch(inRuntimeType, inSchemaType)
    /\ UNCHANGED <<inValue, inValueType, validated, result, recast, inRuntimeType,
                   inSchemaType, inColumnRuntimeTypes, inColumnSchemaTypes, columnMatched,
                   runtimeResult, schemaResult>>

NextMatch == CallCheckValueRuntimeTypesMatch

SpecMatch == InitMatch /\ [][NextMatch]_vars

-----------------------------------------------------------------------------
(* Specification SpecColumn: resolved column types are matched against the *)
(* declared column types.                                                  *)

InitColumn ==
    /\ inColumnRuntimeTypes \in ColumnRuntimeMaps
    /\ inColumnSchemaTypes \in ColumnSchemaMaps
    /\ columnMatched = NotCalled
    /\ inValue = Null
    /\ inValueType = Null
    /\ validated = NotCalled
    /\ result = NotCalled
    /\ recast = NotCalled
    /\ inRuntimeType = Null
    /\ inSchemaType = Null
    /\ matched = NotCalled
    /\ runtimeResult = NotCalled
    /\ schemaResult = NotCalled

CallCheckColumnRuntimeTypesMatch ==
    /\ columnMatched = NotCalled
    /\ columnMatched' \in CheckColumnRuntimeTypesMatch(inColumnRuntimeTypes, inColumnSchemaTypes)
    /\ UNCHANGED <<inValue, inValueType, validated, result, recast, inRuntimeType, inSchemaType,
                   matched, inColumnRuntimeTypes, inColumnSchemaTypes,
                   runtimeResult, schemaResult>>

NextColumn == CallCheckColumnRuntimeTypesMatch

SpecColumn == InitColumn /\ [][NextColumn]_vars

-----------------------------------------------------------------------------
(* Specification SpecSound: a runtime type is matched against a schema     *)
(* type, the schema type is validated, and one value is cast against the   *)
(* runtime type and against the schema type.                               *)

TFloat == StrV(FloatValueType)
TBool == StrV(BoolValueType)
TIntFloat == StrV(Join(<<IntegerValueType, FloatValueType>>))
TIntString == StrV(Join(<<IntegerValueType, StringValueType>>))
KeyX == StrV(<<"x">>)
KeyY == StrV(<<"y">>)

\* Type strings: the unions of INT and STRING in every order, the other two
\* kinds, a union with FLOAT and an unknown name.
SoundUnionTypes ==
    {StrV(Join(ps)) : ps \in SeqsUpTo({IntegerValueType, StringValueType}, MaxUnionLen) \ {<<>>}}
    \cup {TFloat, TBool, TIntFloat, StrV(<<"BOGUS">>)}

\* List types, with the lengths the validator refuses.
SoundListTypes ==
    {SeqV(q) : q \in SeqsUpTo({TInt, TIntString}, MaxListLen)} \cup {SeqV(<<TString>>)}

\* Type expressions nested in a map type.
SoundInnerTypes ==
    {TInt, TIntString, SeqV(<<TInt>>), SeqV(<<TIntString>>),
     MapV({<<TString, TInt>>}), MapV({<<TString, TIntString>>}),
     MapV({<<KeyX, TInt>>}), MapV({<<KeyX, TIntString>>}), Null}

\* Map types: empty, generic (one type-name key), fixed (field names), and
\* the maps of two type-name keys that the validator refuses.
SoundMapTypes ==
    {MapV({})}
    \cup {MapV({<<k, t>>}) : k \in {TString, TIntString, KeyX}, t \in SoundInnerTypes}
    \cup {MapV({<<KeyX, t>>, <<KeyY, u>>}) : t \in {TInt, TIntString}, u \in {TString, TIntString}}
    \cup {MapV({<<TInt, t>>, <<TString, t>>}) : t \in {TInt, TIntString}}

SoundTypes == SoundUnionTypes \cup SoundListTypes \cup SoundMapTypes \cup {Null, IntV(5)}

\* Values nested in a map value.
SoundInnerValues ==
    {Null, IntV(5), StrV(<<"x">>), SeqV(<<IntV(5)>>), SeqV(<<IntV(5), StrV(<<"x">>)>>),
     MapV({<<KeyX, IntV(5)>>}), MapV({<<KeyX, StrV(<<"x">>)>>}), MapV({<<IntV(5), IntV(5)>>})}

SoundValues ==
    {Null, IntV(5), FloatV(10), FloatV(11), StrV(<<"5">>), StrV(<<"x">>), BoolV(TRUE)}
    \cup {SeqV(q) : q \in SeqsUpTo({IntV(5), StrV(<<"x">>)}, MaxListLen)}
    \cup {MapV({})}
    \cup {MapV({<<k, v>>}) : k \in {KeyX, IntV(5)}, v \in SoundInnerValues}
    \cup {MapV({<<KeyX, v>>, <<KeyY, w>>}) : v \in {IntV(5), StrV(<<"x">>)}, w \in {IntV(5), StrV(<<"x">>)}}

InitSound ==
    /\ inRuntimeType \in SoundTypes
    /\ inSchemaType \in SoundTypes
    /\ inValue \in SoundValues
    /\ inValueType = inSchemaType
    /\ matched = NotCalled
    /\ validated = NotCalled
    /\ runtimeResult = NotCalled
    /\ schemaResult = NotCalled
    /\ result = NotCalled
    /\ recast = NotCalled
    /\ inColumnRuntimeTypes = {}
    /\ inColumnSchemaTypes = {}
    /\ columnMatched = NotCalled

CallMatchRuntimeAgainstSchema ==
    /\ matched = NotCalled
    /\ matched' \in CheckValueRuntimeTypesMatch(inRuntimeType, inSchemaType)
    /\ UNCHANGED <<inValue, inValueType, validated, result, recast, inRuntimeType,
                   inSchemaType, inColumnRuntimeTypes, inColumnSchemaTypes, columnMatched,
                   runtimeResult, schemaResult>>

CallValidateSchemaType ==
    /\ matched # NotCalled
    /\ validated = NotCalled
    /\ validated' \in ValidateValueType(inSchemaType)
    /\ UNCHANGED <<inValue, inValueType, result, recast, inRuntimeType, inSchemaType,
                   matched, inColumnRuntimeTypes, inColumnSchemaTypes, columnMatched,
                   runtimeResult, schemaResult>>

CallCastAgainstRuntimeType ==
    /\ validated # NotCalled
    /\ runtimeResult = NotCalled
    /\ runtimeResult' \in CastValue(inValue, inRuntimeType)
    /\ UNCHANGED <<inValue, inValueType, validated, result, recast, inRuntimeType,
                   inSchemaType, matched, inColumnRuntimeTypes, inColumnSchemaTypes,
                   columnMatched, schemaResult>>

CallCastAgainstSchemaType ==
    /\ runtimeResult # NotCalled
    /\ schemaResult = NotCalled
    /\ schemaResult' \in CastValue(inValue, inSchemaType)
    /\ UNCHANGED <<inValue, inValueType, validated, result, recast, inRuntimeType,
                   inSchemaType, matched, inColumnRuntimeTypes, inColumnSchemaTypes,
                   columnMatched, runtimeResult>>

NextSound ==
    \/ CallMatchRuntimeAgainstSchema
    \/ CallValidateSchemaType
    \/ CallCastAgainstRuntimeType
    \/ CallCastAgainstSchemaType

SpecSound == InitSound /\ [][NextSound]_vars

-----------------------------------------------------------------------------
(* Claims about CastValue against a union string.                          *)

\* The kinds in the fixed order of the caster, with what each accepts, what it
\* coerces to and the name it is listed under.
KindOrder == <<IntegerValueType, FloatValueType, StringValueType, BoolValueType>>
KindListed == <<PrimTypeInt, PrimTypeFloat, PrimTypeString, PrimTypeBool>>
KindAccepts(i, v) ==
    CASE i = 1 -> InterfaceToInt64Ok(v)
      [] i = 2 -> InterfaceToFloat64Ok(v)
      [] i = 3 -> IsString(v)
      [] OTHER -> IsBool(v)
KindCoerce(i, v) ==
    CASE i = 1 -> InterfaceToInt64(v)
      [] i = 2 -> InterfaceToFloat64(v)
      [] OTHER -> v
\* The kinds named in a valid union string, as positions in KindOrder.
KindsNamed(str) == {i \in 1..4 : KindOrder[i] \in Range(Split(str))}

UnionCastCase ==
    /\ result # NotCalled
    /\ IsString(inValueType)
    /\ isValidValueType(inValueType[2])
    /\ ~IsNull(inValue)

\* C1: a non-null value cast against a valid union is coerced to the first kind,
\* in the order integer, float, string, bool, that the union names and that
\* accepts the value; every union naming the same kinds gives the same result;
\* and when no named kind accepts the value the error is InvalidPrimitiveType
\* listing exactly the named kinds.
C1_UnionCastPriority ==
    UnionCastCase =>
        LET named == KindsNamed(inValueType[2])
            accepting == {i \in named : KindAccepts(i, inValue)}
            first == CHOOSE i \in accepting : \A j \in accepting : i <= j
        IN  /\ accepting # {} => result = Ok(KindCoerce(first, inValue))
            /\ accepting = {} =>
                /\ IsErr(result)
                /\ ErrKind(result) = "InvalidPrimitiveType"
                /\ Len(ErrInfo(result)[2]) = Cardinality(named)
                /\ Range(ErrInfo(result)[2]) = {KindListed[i] : i \in named}
            /\ \A other \in TypeStrs :
                (isValidValueType(other[2]) /\ KindsNamed(other[2]) = named)
                    => CastValue(inValue, other) = {result}

\* The numeral "5" cast against "STRING|INT" came out as the integer 5.
C1_Witness ==
    /\ inValue = StrV(<<"5">>)
    /\ inValueType = StrV(<<"STRING", Pipe, "INT">>)
    /\ result = Ok(IntV(5))

-----------------------------------------------------------------------------
(* Claims about CastValue against a fixed map.                             *)

\* A validated, non-empty map type that is not generic.
IsFixedMapType(t) ==
    /\ IsMap(t)
    /\ t[2] # {}
    /\ ValidateValueType(t) = {Nil}
    /\ ~(Cardinality(t[2]) = 1 /\ \E e \in t[2] : IsString(e[1]) /\ isValidValueType(e[1][2]))

FixedMapCase == result # NotCalled /\ IsFixedMapType(inValueType) /\ IsMap(inValue)

MissingFields == MapKeys(inValueType[2]) \ MapKeys(inValue[2])
ExtraKeys == MapKeys(inValue[2]) \ MapKeys(inValueType[2])
\* The declared fields the value holds whose cast fails.
FailingFields ==
    {k \in MapKeys(inValueType[2]) \cap MapKeys(inValue[2]) :
        Errs(CastValue(MapGet(inValue[2], k), MapGet(inValueType[2], k))) # {}}

FixedMapSuccess ==
    (FixedMapCase /\ IsOk(result)) =>
        /\ MapKeys(inValue[2]) = MapKeys(inValueType[2])
        /\ IsMap(result[2])
        /\ MapKeys(result[2][2]) = MapKeys(inValueType[2])
        /\ Cardinality(result[2][2]) = Cardinality(inValueType[2])
        /\ \A k \in MapKeys(inValueType[2]) :
            Ok(MapGet(result[2][2], k)) \in CastValue(MapGet(inValue[2], k), MapGet(inValueType[2], k))

FixedMapMissingFails == (FixedMapCase /\ MissingFields # {}) => IsErr(result)

\* C2 as stated: a fixed-map cast succeeds only on the exact key set and gives
\* the fields mapped to their casts; an undeclared key makes it fail with
\* UnsupportedKey, and a missing field makes it fail.
C2_Original ==
    /\ FixedMapSuccess
    /\ FixedMapMissingFails
    /\ (FixedMapCase /\ ExtraKeys # {}) => (IsErr(result) /\ ErrKind(result) = "UnsupportedKey")

\* C2 as amended: as stated, except that an undeclared key makes the call fail,
\* and with UnsupportedKey (naming an undeclared key) when every declared field
\* is in the value and casts.
C2_FixedMapExactKeys ==
    /\ FixedMapSuccess
    /\ FixedMapMissingFails
    /\ (FixedMapCase /\ ExtraKeys # {}) =>
        /\ IsErr(result)
        /\ (MissingFields = {} /\ FailingFields = {}) =>
            /\ ErrKind(result) = "UnsupportedKey"
            /\ ErrInfo(result) \in ExtraKeys
            /\ ErrPath(result) = <<>>

\* A value with both declared fields was cast, and a field changed kind.
C2_Witness ==
    /\ FixedMapCase
    /\ IsOk(result)
    /\ Cardinality(inValueType[2]) = 2
    /\ result[2] # inValue

\* C8 as stated: a map value lacking a declared field always fails with
\* MustBeDefined whose path names a missing field.
C8_Original ==
    (FixedMapCase /\ MissingFields # {}) =>
        /\ IsErr(result)
        /\ ErrKind(result) = "MustBeDefined"
        /\ \E k \in MissingFields : ErrPath(result) = <<UserStrStripped(k)>>

\* C8 as amended: a map value lacking a declared field always fails, either
\* with MustBeDefined whose path names a missing field or with the error of a
\* declared field of the value whose cast fails, under that field's name; when
\* every declared field of the value casts, it is MustBeDefined.
C8_MissingFieldFails ==
    (FixedMapCase /\ MissingFields # {}) =>
        /\ IsErr(result)
        /\ \/ /\ ErrKind(result) = "MustBeDefined"
              /\ \E k \in MissingFields : ErrPath(result) = <<UserStrStripped(k)>>
           \/ \E k \in FailingFields :
                \E err \in Errs(CastValue(MapGet(inValue[2], k), MapGet(inValueType[2], k))) :
                    result = Wrap(err, <<UserStrStripped(k)>>)
        /\ FailingFields = {} =>
            /\ ErrKind(result) = "MustBeDefined"
            /\ \E k \in MissingFields : ErrPath(result) = <<UserStrStripped(k)>>

\* {x: "5"} against {x: INT, y: STRING} failed with MustBeDefined at y.
C8_Witness ==
    /\ inValue = MapV({<<StrV(<<"x">>), StrV(<<"5">>)>>})
    /\ inValueType = MapV({<<StrV(<<"x">>), TInt>>, <<StrV(<<"y">>), TString>>})
    /\ result = Err("MustBeDefined", <<<<"y">>>>, <<>>)

-----------------------------------------------------------------------------
(* Claims about casting twice.                                             *)

\* C5: when a cast succeeds, casting its result against the same type succeeds
\* and gives that result again.
C5_CastIdempotent == recast # NotCalled => recast = Ok(result[2])

\* A map holding a list or a map was cast, the cast changed it, and the second
\* cast gave the result of the first.
C5_Witness ==
    /\ IsOk(recast)
    /\ recast = result
    /\ IsMap(inValue)
    /\ result[2] # inValue
    /\ \E e \in inValue[2] : IsSeq(e[2]) \/ IsMap(e[2])

-----------------------------------------------------------------------------
(* Claims about list types.                                                *)

ListTypeCase == validated # NotCalled /\ IsSeq(inValueType)

\* Casting against a validated list type casts every element against the
\* element type.
ListCastElementwise ==
    (result # NotCalled /\ IsSeq(inValueType) /\ validated = Nil /\ IsSeq(inValue)) =>
        /\ IsOk(result) =>
            /\ IsSeq(result[2])
            /\ Len(result[2][2]) = Len(inValue[2])
            /\ \A i \in 1..Len(inValue[2]) :
                Ok(result[2][2][i]) \in CastValue(inValue[2][i], inValueType[2][1])
        /\ IsErr(result) <=>
            \E i \in 1..Len(inValue[2]) : Errs(CastValue(inValue[2][i], inValueType[2][1])) # {}

\* C6 as stated: a sequence is a valid type exactly when it has one element that
\* is itself a valid type of any variant; a sequence of another length is
\* rejected with TypeListLength; a cast against a list type casts elementwise.
C6_Original ==
    /\ ListTypeCase =>
        /\ validated = Nil <=>
            (Len(inValueType[2]) = 1 /\ ValidateValueType(inValueType[2][1]) = {Nil})
        /\ Len(inValueType[2]) # 1 => (IsErr(validated) /\ ErrKind(validated) = "TypeListLength")
    /\ ListCastElementwise

\* C6 as amended: a sequence is a valid type exactly when it has one element that
\* is a string naming a valid union; a sequence of strings of another length is
\* rejected with TypeListLength and a sequence holding anything but strings with
\* InvalidValueDataType; a cast against a list type casts elementwise.
C6_ListOfUnionOnly ==
    /\ ListTypeCase =>
        LET strings == \A i \in 1..Len(inValueType[2]) : IsString(inValueType[2][i]) IN
        /\ validated = Nil <=>
            /\ Len(inValueType[2]) = 1
            /\ IsString(inValueType[2][1])
            /\ isValidValueType(inValueType[2][1][2])
        /\ (strings /\ Len(inValueType[2]) # 1) =>
            (IsErr(validated) /\ ErrKind(validated) = "TypeListLength")
        /\ ~strings => (IsErr(validated) /\ ErrKind(validated) = "InvalidValueDataType")
    /\ ListCastElementwise

\* A two-element sequence was cast against a validated list type and changed.
C6_Witness ==
    /\ ListTypeCase
    /\ validated = Nil
    /\ IsOk(result)
    /\ IsSeq(inValue)
    /\ Len(inValue[2]) = 2
    /\ result[2] # inValue

-----------------------------------------------------------------------------
(* Claims about the location path of an error.                             *)

\* A validated map type with one entry whose key names a valid union.
IsGenericMapType(t) ==
    /\ IsMap(t)
    /\ ValidateValueType(t) = {Nil}
    /\ Cardinality(t[2]) = 1
    /\ \E e \in t[2] : IsString(e[1]) /\ isValidValueType(e[1][2])

GenericKeyType == (CHOOSE e \in inValueType[2] : TRUE)[1]
GenericValueType == (CHOOSE e \in inValueType[2] : TRUE)[2]

CastErrorCase == result # NotCalled /\ IsErr(result) /\ validated = Nil /\ ~IsNull(inValue)

\* An error from an element of a list has the element's index in front of the
\* path the element's own cast gives.
ListErrorPath ==
    (CastErrorCase /\ IsSeq(inValueType) /\ IsSeq(inValue)) =>
        \E i \in 1..Len(inValue[2]) :
            \E err \in Errs(CastValue(inValue[2][i], inValueType[2][1])) :
                result = Wrap(err, <<Index(i - 1)>>)

\* C9 as stated: the path of an error has a segment for every container on the
\* way to the failure, root first: the index for a list element, and the
\* entry's key for a failure on the key or on the value of a map entry.
C9_Original ==
    /\ ListErrorPath
    /\ (CastErrorCase /\ IsGenericMapType(inValueType) /\ IsMap(inValue)) =>
        \E e \in inValue[2] :
            \/ \E err \in Errs(CastValue(e[1], GenericKeyType)) :
                result = Wrap(err, <<UserStrStripped(e[1])>>)
            \/ \E err \in Errs(CastValue(e[2], GenericValueType)) :
                result = Wrap(err, <<UserStrStripped(e[1])>>)
    /\ (CastErrorCase /\ IsFixedMapType(inValueType) /\ IsMap(inValue)
            /\ ErrKind(result) # "UnsupportedKey") =>
        \E k \in MapKeys(inValueType[2]) :
            Len(ErrPath(result)) >= 1 /\ ErrPath(result)[1] = UserStrStripped(k)

\* C9 as amended: the same for list elements, for the value of a map entry and
\* for a missing field; the error of a generic-map key that fails to cast comes
\* back as the key's own cast gives it, with no segment for the entry; an
\* UnsupportedKey error has no segment and carries the key; a MustBeEmpty error
\* has one segment, the map printed; and an error about the value as a whole
\* (not a map, not a list, not of the union) has no segment.
C9_ErrorPath ==
    /\ ListErrorPath
    /\ (CastErrorCase /\ IsGenericMapType(inValueType) /\ IsMap(inValue)) =>
        \E e \in inValue[2] :
            \/ result \in Errs(CastValue(e[1], GenericKeyType))
            \/ /\ Errs(CastValue(e[1], GenericKeyType)) = {}
               /\ \E err \in Errs(CastValue(e[2], GenericValueType)) :
                    result = Wrap(err, <<UserStrStripped(e[1])>>)
    /\ (CastErrorCase /\ IsFixedMapType(inValueType) /\ IsMap(inValue)) =>
        \/ /\ ErrKind(result) = "UnsupportedKey"
           /\ ErrPath(result) = <<>>
           /\ ErrInfo(result) \in ExtraKeys
        \/ \E k \in MissingFields : result = Wrap(ErrorMustBeDefined, <<UserStrStripped(k)>>)
        \/ \E k \in FailingFields :
            \E err \in Errs(CastValue(MapGet(inValue[2], k), MapGet(inValueType[2], k))) :
                result = Wrap(err, <<UserStrStripped(k)>>)
    /\ (CastErrorCase /\ inValueType = MapV({}) /\ IsMap(inValue)) =>
        result = Wrap(ErrorMustBeEmpty, <<UserStr(inValue)>>)
    /\ (CastErrorCase /\ (IsString(inValueType) \/ (IsMap(inValueType) /\ ~IsMap(inValue))
                            \/ (IsSeq(inValueType) /\ ~IsSeq(inValue)))) =>
        (ErrKind(result) = "InvalidPrimitiveType" /\ ErrPath(result) = <<>>)

\* The second element of the list under field x failed: the path is x, index 1.
C9_Witness ==
    /\ CastErrorCase
    /\ ErrPath(result) = <<<<"x">>, Index(1)>>

-----------------------------------------------------------------------------
(* Claims about generic and fixed maps.                                    *)

\* The keys of a map type that are strings naming a valid union.
UnionKeys(entries) == {k \in MapKeys(entries) : IsString(k) /\ isValidValueType(k[2])}

\* C10: a map type with more than one entry and a key naming a valid union is
\* rejected with GenericTypeMapLength whatever the iteration order; so a map type
\* that validates has one entry under such a key or no such key; and the caster
\* and the matcher take it for generic exactly when the validator does.
C10_GenericFixedExclusive ==
    (validated # NotCalled /\ IsMap(inValueType)) =>
        LET entries == inValueType[2] IN
        /\ (Cardinality(entries) > 1 /\ UnionKeys(entries) # {}) =>
            /\ validated = ErrorGenericTypeMapLength(inValueType)
            /\ ValidateValueType(inValueType) = {validated}
        /\ validated = Nil =>
            /\ \/ Cardinality(entries) = 1 /\ UnionKeys(entries) = MapKeys(entries)
               \/ UnionKeys(entries) = {}
            /\ CastIsGenericMap(entries) = foundGenericKey(entries)
            /\ MatchIsGenericMap(entries) = foundGenericKey(entries)
            /\ foundGenericKey(entries) = (UnionKeys(entries) # {})

\* A map type with two entries, one under a key naming a union, was rejected.
C10_Witness ==
    /\ IsMap(inValueType)
    /\ Cardinality(inValueType[2]) = 2
    /\ validated = ErrorGenericTypeMapLength(inValueType)

-----------------------------------------------------------------------------
(* Claims about CheckValueRuntimeTypesMatch.                               *)

\* C3: against a schema string, a runtime type matches exactly when it is a
\* string and every piece of it is a piece of the schema string; otherwise the
\* error is UnsupportedDataType.
C3_UnionContainment ==
    (matched # NotCalled /\ IsString(inSchemaType)) =>
        /\ matched = Nil <=>
            /\ IsString(inRuntimeType)
            /\ Range(Split(inRuntimeType[2])) \subseteq Range(Split(inSchemaType[2]))
        /\ matched # Nil => (IsErr(matched) /\ ErrKind(matched) = "UnsupportedDataType")
        /\ (inRuntimeType = StrV(<<"INT", Pipe, "STRING">>) /\ inSchemaType = TInt) => IsErr(matched)

\* "INT" matched "INT|FLOAT".
C3_Witness ==
    /\ inRuntimeType = TInt
    /\ inSchemaType = StrV(<<"INT", Pipe, "FLOAT">>)
    /\ matched = Nil

\* C7: against a list schema (one union string in a sequence), a runtime type
\* that is not a sequence of one element gives an error, and a sequence of one
\* element matches exactly when its element matches the schema's element.
C7_ListMatch ==
    (matched # NotCalled /\ IsSeq(inSchemaType) /\ ValidateValueType(inSchemaType) = {Nil}) =>
        /\ ~(IsSeq(inRuntimeType) /\ Len(inRuntimeType[2]) = 1) => IsErr(matched)
        /\ (IsSeq(inRuntimeType) /\ Len(inRuntimeType[2]) = 1) =>
            (matched = Nil <=>
                CheckValueRuntimeTypesMatch(inRuntimeType[2][1], inSchemaType[2][1]) = {Nil})

-----------------------------------------------------------------------------
(* Claims about CheckColumnRuntimeTypesMatch.                              *)

\* A declared column type: a valid column union, or a sequence of one.
ValidColumnSchemaEntry(t) ==
    \/ IsString(t) /\ isValidColumnInputType(t[2])
    \/ IsSeq(t) /\ Len(t[2]) = 1 /\ IsString(t[2][1]) /\ isValidColumnInputType(t[2][1][2])

\* A resolved column type: a ColumnType or a list of them, none Unknown.
HasUnknown(r) ==
    \/ r = UnknownColumnType
    \/ IsColumnTypeSlice(r) /\ \E i \in 1..Len(r[2]) : r[2][i] = UnknownColumnType
ValidColumnRuntimeEntry(r) == (IsColumnType(r) \/ IsColumnTypeSlice(r)) /\ ~HasUnknown(r)

\* The resolved type is of the declared shape and within the declared union.
ColumnEntryMatches(r, t) ==
    IF IsString(t)
    THEN IsColumnType(r) /\ ColumnTypeString(r) \in Range(Split(t[2]))
    ELSE /\ IsColumnTypeSlice(r)
         /\ \A i \in 1..Len(r[2]) : ColumnTypeString(r[2][i]) \in Range(Split(t[2][1][2]))

\* C4: the column match succeeds exactly when every declared type is valid,
\* every resolved type is valid and free of Unknown, the two name sets are equal
\* and every resolved type matches its declared type; a resolved name that is
\* not declared, and any Unknown, give an error.
C4_ColumnMatch ==
    columnMatched # NotCalled =>
        /\ columnMatched = Nil <=>
            /\ \A e \in inColumnSchemaTypes : ValidColumnSchemaEntry(e[2])
            /\ \A e \in inColumnRuntimeTypes : ValidColumnRuntimeEntry(e[2])
            /\ MapKeys(inColumnRuntimeTypes) = MapKeys(inColumnSchemaTypes)
            /\ \A e \in inColumnSchemaTypes :
                ColumnEntryMatches(MapGet(inColumnRuntimeTypes, e[1]), e[2])
        /\ columnMatched # Nil => IsErr(columnMatched)
        /\ MapKeys(inColumnRuntimeTypes) \ MapKeys(inColumnSchemaTypes) # {} => IsErr(columnMatched)
        /\ (\E e \in inColumnRuntimeTypes : HasUnknown(e[2])) => IsErr(columnMatched)

\* Two columns matched, one declared by a union and one by a list of a union
\* with two resolved types.
C4_Witness ==
    /\ columnMatched = Nil
    /\ \E e \in inColumnSchemaTypes : IsString(e[2])
    /\ \E e \in inColumnSchemaTypes : IsSeq(e[2])
    /\ \E e \in inColumnRuntimeTypes : IsColumnTypeSlice(e[2]) /\ Len(e[2][2]) = 2

-----------------------------------------------------------------------------
(* Claims about CheckValueRuntimeTypesMatch together with CastValue.       *)

\* The runtime type matched the schema type, the schema type is valid and the
\* value was cast against the runtime type.
SoundCase ==
    /\ matched = Nil
    /\ validated = Nil
    /\ IsOk(runtimeResult)

\* C11: when the runtime type matches the schema type, the schema type is
\* valid and the value is cast by the runtime type, the value is cast by the
\* schema type as well; this for unions, lists, generic maps and fixed maps,
\* nested or not.
C11_MatchSoundForCast ==
    (SoundCase /\ schemaResult # NotCalled) => IsOk(schemaResult)

\* A value holding a collection in a map, cast by a map type that is not the
\* schema type and that matches it, and cast by the schema type.
C11_Witness ==
    /\ SoundCase
    /\ IsOk(schemaResult)
    /\ inRuntimeType # inSchemaType
    /\ IsMap(inSchemaType)
    /\ \E e \in inSchemaType[2] : IsSeq(e[2]) \/ IsMap(e[2])
    /\ IsMap(inValue)
    /\ \E e \in inValue[2] :
        \/ IsSeq(e[2]) /\ Len(e[2][2]) > 0
        \/ IsMap(e[2]) /\ Cardinality(e[2][2]) > 0

====
